---- MODULE Spec2Model ----
(***************************************************************************)
(* Model of the exoplanet-hub habitability classifier                      *)
(* (composables/useExoplanets.ts and its callers), of the 2D canvas star   *)
(* map (camera, frame loop and painting) and of the Three.js star map      *)
(* (components/organisms/StarMap3D.vue: lifecycle, scene graph, picking,   *)
(* hover labels), and of fetchExoplanets on the shared request state.      *)
(*                                                                         *)
(* Numbers are fixed point: distances in milli-AU, stellar radii in        *)
(* milli-solar-radii, temperatures in kelvin, luminosity in millionths of  *)
(* a solar luminosity.  JavaScript values are tagged records so that       *)
(* undefined, null and NaN keep the behaviour they have in typeof tests,   *)
(* arithmetic and relational comparisons.  Sky positions are in tenths of  *)
(* a parsec, angles in units of 0.0001 rad, sines and cosines in           *)
(* ten-thousandths, scene lengths of the system view in tenths of a unit.  *)
(***************************************************************************)
EXTENDS Integers, Sequences, FiniteSets, TLC

VARIABLES
    exoplanets,      \* useExoplanets.ts: the shared catalog (sequence of planets)
    selectedSystem,  \* HabitableZoneAnalysis: hostname chosen in the dropdown ("" = none)
    tableZone,       \* ExoplanetOverview: zone badge per catalog row ("none" = not rendered)
    cardZone,        \* HabitableZoneAnalysis: zone of each planet card ("none" = no card)
    statsHabitable,  \* stats.habitable: the rows that pass the statistics filter
    rotation,        \* canvas star map: camera rotation, x = pitch, y = yaw (units of 0.005 rad)
    zoom,            \* canvas star map: zoom level, in tenths
    isDragging,      \* canvas star map: a drag is in progress
    lastMouse,       \* canvas star map: pointer position of the last drag event (pixels)
    autoRotate,      \* canvas star map: auto-rotation is on
    canvasPhase,     \* canvas star map: "mounting" until onMounted started the frame loop
    lastOp,          \* canvas star map: the handler that ran last (observation only)
    loading,         \* useExoplanets.ts: the shared loading flag
    canvasAlive,     \* canvas star map: the component instance is mounted
    painted,         \* canvas star map: the planets painted by the last drawScene, in paint order
    viewMode,        \* StarMap3D.vue: "star" or "system"
    showOrbits,      \* StarMap3D.vue: the Orbits checkbox
    showHabitableZone, \* StarMap3D.vue: the Habitable Zone checkbox
    scene,           \* StarMap3D.vue: scene.children (<<>> while the scene is not created)
    cameraPosition,  \* StarMap3D.vue: camera.position
    controlsTarget,  \* StarMap3D.vue: controls.target
    mountPc,         \* StarMap3D.vue: where onMounted stands
    mounted3D,       \* StarMap3D.vue: the component instance is mounted
    renderer,        \* StarMap3D.vue: initThreeJS has created scene, camera, renderer, controls
    animationFrameId, \* StarMap3D.vue: 0 = undefined, 1 = handle of the last request
    rafPending,      \* StarMap3D.vue: a requestAnimationFrame callback is scheduled
    listeners,       \* StarMap3D.vue: the event listeners currently attached
    threw,           \* StarMap3D.vue: the operations that have thrown a TypeError
    lastEvent,       \* StarMap3D.vue: the handler that ran last and what it resolved to (observation only)
    showLabels,      \* StarMap3D.vue: the Labels checkbox
    hoveredPlanet,   \* StarMap3D.vue: pl_name of the hovered planet ("" = null)
    labels,          \* StarMap3D.vue: the keys of the labels map, each with its div in the container
    pending,         \* useExoplanets.ts: the components whose fetchExoplanets call awaits its response
    error            \* useExoplanets.ts: the shared error message ("null" = null)

hzVars == <<exoplanets, selectedSystem, tableZone, cardZone, statsHabitable>>

camVars == <<rotation, zoom, isDragging, lastMouse, autoRotate, canvasPhase, lastOp>>

paintVars == <<loading, canvasAlive, painted>>

sceneVars == <<viewMode, showOrbits, showHabitableZone, scene, cameraPosition,
               controlsTarget, mountPc, mounted3D, renderer, animationFrameId,
               rafPending, listeners, threw, lastEvent, showLabels, hoveredPlanet,
               labels>>

labelVars == <<showLabels, hoveredPlanet, labels>>

fetchVars == <<pending, error>>

vars == <<hzVars, camVars, paintVars, sceneVars, fetchVars>>

----------------------------------------------------------------------------
(* JavaScript values *)

Num(n)    == [t |-> "number", v |-> n]
Null      == [t |-> "null", v |-> 0]
Undefined == [t |-> "undefined", v |-> 0]
NaN       == [t |-> "NaN", v |-> 0]

\* typeof x
TypeOf(x) ==
    CASE x.t = "undefined" -> "undefined"
      [] x.t = "null"      -> "object"
      [] OTHER             -> "number"

\* ToNumber(x): undefined -> NaN, null -> +0
ToNumber(x) ==
    CASE x.t = "undefined" -> NaN
      [] x.t = "null"      -> Num(0)
      [] OTHER             -> x

IsNaN(x) == ToNumber(x).t = "NaN"

\* a < b : false as soon as one side converts to NaN
JsLess(a, b) ==
    /\ ~IsNaN(a)
    /\ ~IsNaN(b)
    /\ ToNumber(a).v < ToNumber(b).v

\* a > b
JsGreater(a, b) == JsLess(b, a)

----------------------------------------------------------------------------
(* Fixed-point arithmetic *)

RECURSIVE SqrtSearch(_, _, _)
SqrtSearch(x, lo, hi) ==
    IF lo >= hi THEN lo
    ELSE LET mid == (lo + hi + 1) \div 2
         IN  IF mid * mid <= x THEN SqrtSearch(x, mid, hi)
                               ELSE SqrtSearch(x, lo, mid - 1)

\* floor of the square root
ISqrt(x) == SqrtSearch(x, 0, 4095)

SolarTeff == 5778

\* Math.pow(stellarRadius, 2) * Math.pow(stellarTemp / 5778, 4), in millionths
Luminosity(stellarRadius, stellarTemp) ==
    IF IsNaN(stellarRadius) \/ IsNaN(stellarTemp) THEN NaN
    ELSE LET r      == ToNumber(stellarRadius).v
             ratio  == (ToNumber(stellarTemp).v * 1000) \div SolarTeff
             ratio2 == (ratio * ratio) \div 1000
             ratio4 == (ratio2 * ratio2) \div 1000
         IN  Num(((r * r) \div 1000) * ratio4)

\* Math.sqrt(luminosity / 1.1) and Math.sqrt(luminosity / 0.53), in milli-AU
calculateHabitableZone(stellarRadius, stellarTemp) ==
    LET luminosity == Luminosity(stellarRadius, stellarTemp)
    IN  IF luminosity.t = "NaN"
        THEN [innerBoundary |-> NaN, outerBoundary |-> NaN, luminosity |-> NaN]
        ELSE [innerBoundary |-> Num(ISqrt((luminosity.v * 10) \div 11)),
              outerBoundary |-> Num(ISqrt((luminosity.v * 100) \div 53)),
              luminosity    |-> luminosity]

----------------------------------------------------------------------------
(* The classifier *)

Zones == {"habitable", "too-hot", "too-cold"}

\* the first comparison turned around
ClassifyDistanceFlipped(distance, inner, outer) ==
    IF JsGreater(distance, inner) THEN "too-hot"
    ELSE IF JsGreater(distance, outer) THEN "too-cold"
    ELSE "habitable"

\* the two labels exchanged
ClassifyDistanceSwapped(distance, inner, outer) ==
    IF JsLess(distance, inner) THEN "too-cold"
    ELSE IF JsGreater(distance, outer) THEN "too-hot"
    ELSE "habitable"

\* lines 324-330: the comparison of the orbital distance with the boundaries
ClassifyDistance(distance, inner, outer) ==
    IF JsLess(distance, inner) THEN "too-hot"
    ELSE IF JsGreater(distance, outer) THEN "too-cold"
    ELSE "habitable"

isInHabitableZone(planet, innerBoundary, outerBoundary) ==
    IF innerBoundary = Undefined \/ outerBoundary = Undefined
    THEN IF TypeOf(planet.st_rad) # "number" \/ TypeOf(planet.st_teff) # "number"
         THEN "too-cold"
         ELSE LET boundaries == calculateHabitableZone(planet.st_rad, planet.st_teff)
              IN  ClassifyDistance(planet.pl_orbsmax,
                                   boundaries.innerBoundary, boundaries.outerBoundary)
    ELSE ClassifyDistance(planet.pl_orbsmax, innerBoundary, outerBoundary)

----------------------------------------------------------------------------
(* Catalog rows the proxy can return *)

OrbitValues == {Undefined, Null, Num(0), Num(-500), Num(50), Num(500), Num(1000), Num(2000)}

\* <<st_rad, st_teff>> of a row
StellarValues == {<<Num(1000), Num(5778)>>, <<Num(1000), Num(3500)>>,
                  <<Null, Num(5778)>>, <<Num(1000), Undefined>>,
                  <<Null, Null>>, <<Undefined, Undefined>>}

EqtValues == {Undefined, Num(204), Num(288)}

Hostnames == <<"A", "B">>

Planet(name, host, orb, st, eqt) ==
    [pl_name |-> name, hostname |-> host, pl_orbsmax |-> orb,
     st_rad |-> st[1], st_teff |-> st[2], pl_eqt |-> eqt]

Catalogs ==
    { <<Planet("A b", "A", o1, s1, e1), Planet("c", h2, o2, s2, e2)>> :
        o1 \in OrbitValues, s1 \in StellarValues, e1 \in EqtValues,
        h2 \in {"A", "B"},
        o2 \in OrbitValues, s2 \in StellarValues, e2 \in EqtValues }

----------------------------------------------------------------------------
(* HabitableZoneAnalysis: computed properties *)

\* systemsMap[host]: indices of the rows of that host, in catalog order
SystemPlanets(host) ==
    SelectSeq([i \in 1..Len(exoplanets) |-> i], LAMBDA i : exoplanets[i].hostname = host)

\* Object.keys(systemsMap).sort()
systems == SelectSeq(Hostnames, LAMBDA h : Len(SystemPlanets(h)) > 0)

currentSystemPlanets(sel) == SystemPlanets(sel)

HasStellarData(p) == TypeOf(p.st_rad) = "number" /\ TypeOf(p.st_teff) = "number"

\* first row with numeric st_rad and st_teff, else the first row; 0 = undefined
referencePlanet(sel) ==
    LET rows == currentSystemPlanets(sel)
        full == SelectSeq(rows, LAMBDA i : HasStellarData(exoplanets[i]))
    IN  IF Len(full) > 0 THEN full[1]
        ELSE IF Len(rows) > 0 THEN rows[1]
        ELSE 0

habitableZone(sel) ==
    LET ref == referencePlanet(sel)
    IN  IF ref = 0
        THEN [innerBoundary |-> Num(0), outerBoundary |-> Num(0), luminosity |-> Num(0)]
        ELSE calculateHabitableZone(exoplanets[ref].st_rad, exoplanets[ref].st_teff)

\* zone behind getPlanetCardClass / getHabitableZoneLabel, hz = habitableZone.value
CardZoneOf(planet, hz) ==
    isInHabitableZone(planet, hz.innerBoundary, hz.outerBoundary)

\* the cards drawn for a selection: one per planet of sortedPlanets
CardsFor(sel) ==
    LET hz == habitableZone(sel)
    IN  [i \in 1..Len(exoplanets) |->
            IF exoplanets[i].hostname = sel THEN CardZoneOf(exoplanets[i], hz) ELSE "none"]

\* stats.habitable: the filter callback
StatsFilter(p) ==
    IF TypeOf(p.st_rad) # "number" \/ TypeOf(p.st_teff) # "number" THEN FALSE
    ELSE LET b == calculateHabitableZone(p.st_rad, p.st_teff)
         IN  isInHabitableZone(p, b.innerBoundary, b.outerBoundary) = "habitable"

----------------------------------------------------------------------------
(* Sky coordinates: fetchExoplanets turns right ascension, declination     *)
(* (whole degrees) and distance (tenths of a parsec) into x, y, z.         *)

TrigScale == 10000

\* Math.PI, in units of 0.0001 rad
Pi == 31416

Min(a, b) == IF a < b THEN a ELSE b
Max(a, b) == IF a > b THEN a ELSE b

\* sine of an angle in 0..Pi/2, by its power series
SinSeries(a) ==
    LET a2 == (a * a) \div TrigScale
        t3 == ((a2 * a) \div TrigScale) \div 6
        t5 == ((t3 * a2) \div TrigScale) \div 20
        t7 == ((t5 * a2) \div TrigScale) \div 42
        t9 == ((t7 * a2) \div TrigScale) \div 72
    IN  a - t3 + t5 - t7 + t9

\* cosine of an angle in 0..Pi/2, by its power series
CosSeries(a) ==
    LET a2 == (a * a) \div TrigScale
        c2 == a2 \div 2
        c4 == ((c2 * a2) \div TrigScale) \div 12
        c6 == ((c4 * a2) \div TrigScale) \div 30
        c8 == ((c6 * a2) \div TrigScale) \div 56
    IN  TrigScale - c2 + c4 - c6 + c8

\* Math.sin
Sin(a) ==
    LET r == a % (2 * Pi)
    IN  IF r <= Pi \div 2 THEN SinSeries(r)
        ELSE IF r <= Pi THEN SinSeries(Pi - r)
        ELSE IF r <= Pi + Pi \div 2 THEN 0 - SinSeries(r - Pi)
        ELSE 0 - SinSeries(2 * Pi - r)

\* Math.cos
Cos(a) ==
    LET r == a % (2 * Pi)
    IN  IF r <= Pi \div 2 THEN CosSeries(r)
        ELSE IF r <= Pi THEN 0 - CosSeries(Pi - r)
        ELSE IF r <= Pi + Pi \div 2 THEN 0 - CosSeries(r - Pi)
        ELSE CosSeries(2 * Pi - r)

\* x || 0 for a value that is a number, null or undefined
OrZero(x) == IF x.t = "number" THEN x.v ELSE 0

\* (degrees * Math.PI) / 180
ToRadians(degrees) == (degrees * Pi) \div 180

\* a * b for a length a and a sine or cosine b
Scaled(a, b) == (a * b) \div TrigScale

\* x = distance * cos(dec) * sin(ra): the two angles exchanged
CartesianSwapped(sy_dist, ra, dec) ==
    LET distance == OrZero(sy_dist) * 100
        raRad    == ToRadians(OrZero(ra))
        decRad   == ToRadians(OrZero(dec))
    IN  [x |-> Scaled(Scaled(distance, Cos(decRad)), Sin(raRad)) \div 100,
         y |-> Scaled(Scaled(distance, Cos(decRad)), Sin(raRad)) \div 100,
         z |-> Scaled(distance, Sin(decRad)) \div 100]

\* lines 156-165: the coordinates added to a row of the response
Cartesian(sy_dist, ra, dec) ==
    LET distance == OrZero(sy_dist) * 100
        raRad    == ToRadians(OrZero(ra))
        decRad   == ToRadians(OrZero(dec))
    IN  [x |-> Scaled(Scaled(distance, Cos(decRad)), Cos(raRad)) \div 100,
         y |-> Scaled(Scaled(distance, Cos(decRad)), Sin(raRad)) \div 100,
         z |-> Scaled(distance, Sin(decRad)) \div 100]

\* one row of the response: the columns of the query that the model uses
Row(name, host, orb, st, sky) ==
    [pl_name |-> name, hostname |-> host, pl_orbsmax |-> orb,
     st_rad |-> st[1], st_teff |-> st[2],
     ra |-> sky[1], dec |-> sky[2], sy_dist |-> sky[3]]

\* response.data.map(...): the row with x, y, z added
Enrich(row) ==
    LET c == Cartesian(row.sy_dist, row.ra, row.dec)
    IN  [pl_name |-> row.pl_name, hostname |-> row.hostname,
         pl_orbsmax |-> row.pl_orbsmax, st_rad |-> row.st_rad, st_teff |-> row.st_teff,
         ra |-> row.ra, dec |-> row.dec, sy_dist |-> row.sy_dist,
         x |-> c.x, y |-> c.y, z |-> c.z]

----------------------------------------------------------------------------
(* Classifier specification: a loaded catalog and the components that      *)
(* classify its rows                                                       *)

NoZones == [i \in 1..2 |-> "none"]

\* the Three.js star map is not on the page
Idle3D ==
    /\ viewMode = "star"
    /\ showOrbits = TRUE
    /\ showHabitableZone = TRUE
    /\ scene = <<>>
    /\ cameraPosition = <<0, 0, 0>>
    /\ controlsTarget = <<0, 0, 0>>
    /\ mountPc = "start"
    /\ mounted3D = FALSE
    /\ renderer = FALSE
    /\ animationFrameId = 0
    /\ rafPending = FALSE
    /\ listeners = {}
    /\ threw = {}
    /\ lastEvent = [op |-> "setup", planet |-> 0]
    /\ showLabels = TRUE
    /\ hoveredPlanet = ""
    /\ labels = {}

InitHZ ==
    /\ exoplanets \in Catalogs
    /\ selectedSystem = ""
    /\ tableZone = NoZones
    /\ cardZone = NoZones
    /\ statsHabitable = {}
    /\ rotation = [x |-> 0, y |-> 0]
    /\ zoom = 10
    /\ isDragging = FALSE
    /\ lastMouse = [x |-> 0, y |-> 0]
    /\ autoRotate = TRUE
    /\ canvasPhase = "mounting"
    /\ lastOp = "setup"
    /\ loading = FALSE
    /\ canvasAlive = FALSE
    /\ painted = <<>>
    /\ Idle3D
    /\ pending = {}
    /\ error = "null"

\* ExoplanetOverview renders: the statistics cards and one zone badge per row
RenderOverview ==
    /\ tableZone' = [i \in 1..Len(exoplanets) |->
                        isInHabitableZone(exoplanets[i], Undefined, Undefined)]
    /\ statsHabitable' = {i \in 1..Len(exoplanets) : StatsFilter(exoplanets[i])}
    /\ UNCHANGED <<exoplanets, selectedSystem, cardZone, camVars, paintVars, sceneVars, fetchVars>>

\* HabitableZoneAnalysis onMounted, after the fetch: auto-select the first system
AnalysisMounted ==
    /\ selectedSystem = ""
    /\ Len(systems) > 0
    /\ selectedSystem' = systems[1]
    /\ cardZone' = CardsFor(systems[1])
    /\ UNCHANGED <<exoplanets, tableZone, statsHabitable, camVars, paintVars, sceneVars, fetchVars>>

\* the dropdown's v-model
SelectSystem(s) ==
    /\ selectedSystem' = s
    /\ cardZone' = CardsFor(s)
    /\ UNCHANGED <<exoplanets, tableZone, statsHabitable, camVars, paintVars, sceneVars, fetchVars>>

NextHZ ==
    \/ RenderOverview
    \/ AnalysisMounted
    \/ \E k \in 1..Len(systems) : SelectSystem(systems[k])

SpecHZ == InitHZ /\ [][NextHZ]_vars

----------------------------------------------------------------------------
(* The 2D canvas star map: camera state and its handlers.                  *)
(* Angles are counted in steps of 0.005 rad (one animation tick); a drag   *)
(* turns the view by 0.01 rad = 2 steps per pixel.  Zoom is in tenths.     *)

ZoomStep    == 2
ZoomMax     == 30
ZoomMin     == 3
ZoomDefault == 10
TickStep    == 1
DragStep    == 2
\* pi/2 = 1.5708 rad = 314.16 steps: an angle is within +-90 degrees iff |steps| <= 314
HalfPi      == 314

\* the model explores yaw and pitch up to these magnitudes (steps)
MaxYaw   == 4
MaxPitch == 400

\* clientX / clientY of the pointer events
PointerXs == {0, 1}
PointerYs == {0, 100}
Pointers == [x : PointerXs, y : PointerYs]

InRange(rot) ==
    /\ rot.x \in -MaxPitch..MaxPitch
    /\ rot.y \in -MaxYaw..MaxYaw

InitCanvas ==
    /\ exoplanets = <<>>
    /\ selectedSystem = ""
    /\ tableZone = <<>>
    /\ cardZone = <<>>
    /\ statsHabitable = {}
    /\ rotation = [x |-> 0, y |-> 0]
    /\ zoom = ZoomDefault
    /\ isDragging = FALSE
    /\ lastMouse = [x |-> 0, y |-> 0]
    /\ autoRotate = TRUE
    /\ canvasPhase = "mounting"
    /\ lastOp = "setup"
    /\ loading = FALSE
    /\ canvasAlive = TRUE
    /\ painted = <<>>
    /\ Idle3D
    /\ pending = {}
    /\ error = "null"

\* the <canvas> element: rendered while the component is mounted and the
\* shared loading flag is off
canvasRef == canvasAlive /\ ~loading

\* one planet as drawScene paints it: rotation about the y axis, then about the
\* x axis, perspective, and the colour's zone.  dx and dy are the offsets from
\* the canvas centre in tenths of a pixel, depth is finalZ in tenths of a parsec
PaintedPlanet(cat, i, rot, zm) ==
    LET planet   == cat[i]
        cosY     == Cos(rot.y * 50)
        sinY     == Sin(rot.y * 50)
        rotatedX == Scaled(planet.x, cosY) - Scaled(planet.z, sinY)
        rotatedZ == Scaled(planet.x, sinY) + Scaled(planet.z, cosY)
        cosX     == Cos(rot.x * 50)
        sinX     == Sin(rot.x * 50)
        rotatedY == Scaled(planet.y, cosX) - Scaled(rotatedZ, sinX)
        finalZ   == Scaled(planet.y, sinX) + Scaled(rotatedZ, cosX)
        perspective == Max(100, Min(2000, (1000 * 10000) \div (10000 + finalZ)))
    IN  [planet |-> i,
         dx     |-> (rotatedX * zm * perspective) \div 20000,
         dy     |-> 0 - ((rotatedY * zm * perspective) \div 20000),
         depth  |-> finalZ,
         zone   |-> isInHabitableZone(planet, Undefined, Undefined)]

\* what the canvas shows after drawScene: nothing new without a canvas,
\* else every planet of the catalog, painted in catalog order
drawScene(cat, rot, zm) ==
    IF ~canvasRef THEN painted
    ELSE [i \in 1..Len(cat) |-> PaintedPlanet(cat, i, rot, zm)]

\* the body of the frame callback
AnimateBody ==
    IF autoRotate
    THEN /\ rotation' = [rotation EXCEPT !.y = @ + TickStep]
         /\ painted' = drawScene(exoplanets, rotation', zoom)
    ELSE UNCHANGED <<rotation, painted>>

\* onMounted, after the catalog fetch: first draw, then animate() starts the loop
CanvasMounted ==
    /\ canvasPhase = "mounting"
    /\ rotation' = IF autoRotate THEN [rotation EXCEPT !.y = @ + TickStep] ELSE rotation
    /\ painted' = drawScene(exoplanets, rotation', zoom)
    /\ InRange(rotation')
    /\ canvasPhase' = "running"
    /\ lastOp' = "onMounted"
    /\ UNCHANGED <<zoom, isDragging, lastMouse, autoRotate, hzVars, loading, canvasAlive, sceneVars, fetchVars>>

\* one requestAnimationFrame callback
animate ==
    /\ canvasPhase = "running"
    /\ AnimateBody
    /\ InRange(rotation')
    /\ lastOp' = "animate"
    /\ UNCHANGED <<zoom, isDragging, lastMouse, autoRotate, canvasPhase, hzVars, loading, canvasAlive, sceneVars, fetchVars>>

\* @click="zoom = Math.min(zoom + 0.2, 3)"
zoomIn ==
    /\ zoom' = Min(zoom + ZoomStep, ZoomMax)
    /\ painted' = drawScene(exoplanets, rotation, zoom')
    /\ lastOp' = "zoomIn"
    /\ UNCHANGED <<rotation, isDragging, lastMouse, autoRotate, canvasPhase, hzVars, loading, canvasAlive, sceneVars, fetchVars>>

\* zoom out without the Math.max floor
zoomOutUnclamped ==
    /\ zoom' = zoom - ZoomStep
    /\ painted' = drawScene(exoplanets, rotation, zoom')
    /\ lastOp' = "zoomOut"
    /\ UNCHANGED <<rotation, isDragging, lastMouse, autoRotate, canvasPhase, hzVars, loading, canvasAlive, sceneVars, fetchVars>>

\* @click="zoom = Math.max(zoom - 0.2, 0.3)"
zoomOut ==
    /\ zoom' = Max(zoom - ZoomStep, ZoomMin)
    /\ painted' = drawScene(exoplanets, rotation, zoom')
    /\ lastOp' = "zoomOut"
    /\ UNCHANGED <<rotation, isDragging, lastMouse, autoRotate, canvasPhase, hzVars, loading, canvasAlive, sceneVars, fetchVars>>

\* @click="autoRotate = !autoRotate"
toggleAutoRotate ==
    /\ autoRotate' = ~autoRotate
    /\ painted' = painted
    /\ lastOp' = "toggleAutoRotate"
    /\ UNCHANGED <<rotation, zoom, isDragging, lastMouse, canvasPhase, hzVars, loading, canvasAlive, sceneVars, fetchVars>>

handleMouseDown(e) ==
    /\ isDragging' = TRUE
    /\ autoRotate' = FALSE
    /\ lastMouse' = e
    /\ painted' = painted
    /\ lastOp' = "handleMouseDown"
    /\ UNCHANGED <<rotation, zoom, canvasPhase, hzVars, loading, canvasAlive, sceneVars, fetchVars>>

handleMouseMove(e) ==
    /\ IF isDragging
       THEN /\ rotation' = [x |-> rotation.x + (e.y - lastMouse.y) * DragStep,
                            y |-> rotation.y + (e.x - lastMouse.x) * DragStep]
            /\ lastMouse' = e
            /\ painted' = drawScene(exoplanets, rotation', zoom)
       ELSE UNCHANGED <<rotation, lastMouse, painted>>
    /\ InRange(rotation')
    /\ lastOp' = "handleMouseMove"
    /\ UNCHANGED <<zoom, isDragging, autoRotate, canvasPhase, hzVars, loading, canvasAlive, sceneVars, fetchVars>>

\* releasing the mouse switches auto-rotation back on
handleMouseUpResumes ==
    /\ isDragging' = FALSE
    /\ autoRotate' = TRUE
    /\ painted' = painted
    /\ lastOp' = "handleMouseUp"
    /\ UNCHANGED <<rotation, zoom, lastMouse, canvasPhase, hzVars, loading, canvasAlive, sceneVars, fetchVars>>

\* mouseup and mouseleave
handleMouseUp ==
    /\ isDragging' = FALSE
    /\ painted' = painted
    /\ lastOp' = "handleMouseUp"
    /\ UNCHANGED <<rotation, zoom, lastMouse, autoRotate, canvasPhase, hzVars, loading, canvasAlive, sceneVars, fetchVars>>

\* reset that forgets the zoom level
resetViewKeepsZoom ==
    /\ rotation' = [x |-> 0, y |-> 0]
    /\ autoRotate' = TRUE
    /\ painted' = drawScene(exoplanets, rotation', zoom)
    /\ lastOp' = "resetView"
    /\ UNCHANGED <<zoom, isDragging, lastMouse, canvasPhase, hzVars, loading, canvasAlive, sceneVars, fetchVars>>

resetView ==
    /\ rotation' = [x |-> 0, y |-> 0]
    /\ zoom' = ZoomDefault
    /\ autoRotate' = TRUE
    /\ painted' = drawScene(exoplanets, rotation', zoom')
    /\ lastOp' = "resetView"
    /\ UNCHANGED <<isDragging, lastMouse, canvasPhase, hzVars, loading, canvasAlive, sceneVars, fetchVars>>

NextCanvas ==
    \/ CanvasMounted
    \/ animate
    \/ zoomIn
    \/ zoomOut
    \/ toggleAutoRotate
    \/ \E e \in Pointers : handleMouseDown(e)
    \/ \E e \in Pointers : handleMouseMove(e)
    \/ handleMouseUp
    \/ resetView

SpecCanvas == InitCanvas /\ [][NextCanvas]_vars

----------------------------------------------------------------------------
(* Responses of the catalog proxy used by the two star maps *)

SunLike  == <<Num(1000), Num(5778)>>
CoolStar == <<Num(1000), Num(3500)>>
NoStar   == <<Null, Null>>

\* <<ra, dec, sy_dist>>: beyond 30 pc, within 30 pc, no distance, no right
\* ascension, on the celestial equator
SkyFar       == <<Num(200), Num(-60), Num(350)>>
SkyFarNorth  == <<Num(120), Num(45), Num(400)>>
SkyNear      == <<Num(300), Num(10), Num(290)>>
SkyNoRange   == <<Num(120), Num(45), Null>>
SkyNoBearing == <<Null, Num(30), Num(400)>>
SkyEquator   == <<Num(200), Num(0), Num(400)>>

SkyPairs == {<<SkyFar, SkyFarNorth>>, <<SkyNoRange, SkyNear>>, <<SkyFar, SkyNoBearing>>,
             <<SkyEquator, SkyNear>>}

\* <<pl_name, hostname>> of the second row: a sibling of "A b" or another system
SecondPlanets == {<<"A c", "A">>, <<"B b", "B">>}

\* <<pl_orbsmax, <<st_rad, st_teff>>>> of the second row
SecondOrbits == {<<Null, SunLike>>, <<Num(1000), SunLike>>, <<Num(1000), NoStar>>}

Responses ==
    { <<Row("A b", "A", o1, CoolStar, sky[1]), Row(p2[1], p2[2], o2[1], o2[2], sky[2])>> :
        o1 \in {Num(50), Num(400)}, p2 \in SecondPlanets, o2 \in SecondOrbits,
        sky \in SkyPairs }

\* exoplanets.value after a successful fetch
Loaded(data) == [i \in 1..Len(data) |-> Enrich(data[i])]

----------------------------------------------------------------------------
(* The 2D canvas star map from its mount-time fetch on: the request is in  *)
(* flight, resolves, onMounted draws and starts the frame loop; the        *)
(* component can be unmounted at any moment.                               *)

InitDraw ==
    /\ exoplanets = <<>>
    /\ selectedSystem = ""
    /\ tableZone = <<>>
    /\ cardZone = <<>>
    /\ statsHabitable = {}
    /\ rotation = [x |-> 0, y |-> 0]
    /\ zoom = ZoomDefault
    /\ isDragging = FALSE
    /\ lastMouse = [x |-> 0, y |-> 0]
    /\ autoRotate = TRUE
    /\ canvasPhase = "fetching"
    /\ lastOp = "setup"
    /\ loading = TRUE
    /\ canvasAlive = TRUE
    /\ painted = <<>>
    /\ Idle3D
    /\ pending = {"StarMap"}
    /\ error = "null"

\* the awaited fetchExoplanets resolves: try block and finally of lines 121-182
canvasFetchDone(data) ==
    /\ canvasPhase = "fetching"
    /\ exoplanets' = Loaded(data)
    /\ loading' = FALSE
    /\ canvasPhase' = "mounting"
    /\ pending' = pending \ {"StarMap"}
    /\ lastOp' = "fetchExoplanets"
    /\ UNCHANGED <<selectedSystem, tableZone, cardZone, statsHabitable, rotation, zoom,
                   isDragging, lastMouse, autoRotate, canvasAlive, painted, sceneVars, error>>

\* the component is unmounted: it registers no onUnmounted hook, Vue only
\* removes the canvas and stops the watchers.  onMounted resumes in the same
\* task in which the fetch resolves, so no unmount falls between the two
CanvasUnmounted ==
    /\ canvasAlive
    /\ canvasPhase # "mounting"
    /\ canvasAlive' = FALSE
    /\ lastOp' = "unmount"
    /\ UNCHANGED <<hzVars, rotation, zoom, isDragging, lastMouse, autoRotate,
                   canvasPhase, loading, painted, sceneVars, fetchVars>>

NextDraw ==
    \/ \E data \in Responses : canvasFetchDone(data)
    \/ CanvasMounted
    \/ animate
    \/ CanvasUnmounted

SpecDraw == InitDraw /\ [][NextDraw]_vars

\* one-row responses over a grid of right ascensions, declinations and distances
SkyGrid ==
    { << Row("A b", "A", Num(1000), SunLike, <<Num(ra), Num(dec), Num(dist)>>) >> :
        ra \in {0, 15, 45, 100, 135, 180, 200, 270, 300, 345},
        dec \in {-90, -60, -45, -10, 0, 10, 30, 45, 75, 90},
        dist \in {0, 1, 100, 290, 350, 1000} }

NextSky == \E data \in SkyGrid : canvasFetchDone(data)

SpecSky == InitDraw /\ [][NextSky]_vars

----------------------------------------------------------------------------
(* StarMap3D.vue: the scene graph.  An entity is one child of the scene:   *)
(* its name is prefix + id, planet is the catalog row kept in userData     *)
(* (0 = none), pos its position, distance the radius of the circle it      *)
(* draws or sits on (0 = none).                                            *)

Entity(prefix, id, obj, planet, pos, distance) ==
    [prefix |-> prefix, id |-> id, obj |-> obj, planet |-> planet,
     pos |-> pos, distance |-> distance]

Origin == <<0, 0, 0>>

\* camera.position.set(0, 50, 200) and camera.position.set(0, 150, 200)
StarCamera   == <<0, 50, 200>>
SystemCamera == <<0, 150, 200>>

\* Math.sqrt(au) * 40 for au in milli-AU, in tenths of a scene unit
ScaledOrbit(au) == ISqrt(160 * au)

SunHzInner == 950
SunHzOuter == 1670

\* if (distanceFromSun < 30) return, in tenths of a parsec
MinStarDistance == 300

\* Math.max(25, ...), in tenths of a scene unit
MinOrbitDistance == 250

\* (hzOuterDist - hzInnerDist) > 3, in tenths of a scene unit
MinRingWidth == 30

\* a number other than 0: the operand of && and ! that lets the code go on
Truthy(x) == x.t = "number" /\ x.v # 0

\* lights, star field, Sun and its glow (initThreeJS, addStarField, addSun)
BaseScene ==
    << Entity("", "", "AmbientLight", 0, Origin, 0),
       Entity("", "", "PointLight", 0, Origin, 0),
       Entity("", "", "Points", 0, Origin, 0),
       Entity("", "Sun", "Mesh", 0, Origin, 0),
       Entity("", "", "Mesh", 0, Origin, 0) >>

addSunHabitableZone ==
    << Entity("sun_hz_", "ring", "Mesh", 0, <<0, 1, 0>>, ScaledOrbit(SunHzOuter)),
       Entity("sun_hz_", "inner", "Line", 0, Origin, ScaledOrbit(SunHzInner)),
       Entity("sun_hz_", "outer", "Line", 0, Origin, ScaledOrbit(SunHzOuter)) >>

\* scene.children without the entities whose name starts with one of the prefixes
Without(sc, prefixes) == SelectSeq(sc, LAMBDA e : e.prefix \notin prefixes)

\* the meshes renderStarView adds, rows i..Len(cat)
RECURSIVE StarMeshes(_, _)
StarMeshes(cat, i) ==
    IF i > Len(cat) THEN <<>>
    ELSE LET planet == cat[i]
             skip   == \/ planet.x = 0 \/ planet.y = 0 \/ planet.z = 0
                       \/ planet.x * planet.x + planet.y * planet.y + planet.z * planet.z
                             < MinStarDistance * MinStarDistance
         IN  (IF skip THEN <<>>
              ELSE << Entity("planet_", planet.pl_name, "Mesh", i,
                             <<planet.x, planet.z, 0 - planet.y>>, 0) >>)
             \o StarMeshes(cat, i + 1)

renderStarView(sc, cat) == Without(sc, {"planet_"}) \o StarMeshes(cat, 1)

\* exoplanets.value.filter(p => p.hostname === selectedSystem.value), as row numbers
PlanetsOf(cat, host) ==
    SelectSeq([i \in 1..Len(cat) |-> i], LAMBDA i : cat[i].hostname = host)

\* positions 1..Len(rows) of systemPlanets ordered by (pl_orbsmax || 0), stable
RECURSIVE SortByOrbit(_, _, _)
SortByOrbit(cat, rows, left) ==
    IF left = {} THEN <<>>
    ELSE LET key(k) == OrZero(cat[rows[k]].pl_orbsmax)
             first  == CHOOSE k \in left :
                          \A j \in left : key(k) < key(j) \/ (key(k) = key(j) /\ k <= j)
         IN  <<first>> \o SortByOrbit(cat, rows, left \ {first})

\* the mesh and the orbit line of one planet of the system
PlanetEntities(cat, rows, k, orbits) ==
    LET planet == cat[rows[k]]
        orb    == planet.pl_orbsmax
    IN  IF orb.t # "number" \/ orb.v <= 0 THEN <<>>
        ELSE LET distance == Max(MinOrbitDistance, ScaledOrbit(orb.v))
                 angle    == ((k - 1) * 2 * Pi) \div Len(rows)
             IN  << Entity("planet_", planet.pl_name, "Mesh", rows[k],
                           <<Scaled(distance, Cos(angle)), 0, Scaled(distance, Sin(angle))>>,
                           distance) >>
                 \o (IF orbits
                     THEN << Entity("orbit_", planet.pl_name, "Line", 0, Origin, distance) >>
                     ELSE <<>>)

RECURSIVE SystemEntities(_, _, _, _, _)
SystemEntities(cat, rows, order, n, orbits) ==
    IF n > Len(order) THEN <<>>
    ELSE PlanetEntities(cat, rows, order[n], orbits)
         \o SystemEntities(cat, rows, order, n + 1, orbits)

\* hzInner / hzOuter of renderSystemView: 0 without a row that has st_rad and st_teff
SystemZone(cat, rows) ==
    LET full == SelectSeq(rows, LAMBDA i : Truthy(cat[i].st_rad) /\ Truthy(cat[i].st_teff))
    IN  IF Len(full) = 0 THEN [hzInner |-> 0, hzOuter |-> 0]
        ELSE LET hz == calculateHabitableZone(cat[full[1]].st_rad, cat[full[1]].st_teff)
             IN  [hzInner |-> hz.innerBoundary.v, hzOuter |-> hz.outerBoundary.v]

\* the ring and the two boundary lines of the system's habitable zone
ZoneEntities(zone, hzOn) ==
    IF ~(hzOn /\ zone.hzInner > 0 /\ zone.hzOuter > 0) THEN <<>>
    ELSE LET hzInnerDist == ScaledOrbit(zone.hzInner)
             hzOuterDist == ScaledOrbit(zone.hzOuter)
         IN  (IF hzOuterDist - hzInnerDist > MinRingWidth
              THEN << Entity("orbit_", "hz_ring", "Mesh", 0, <<0, 1, 0>>, hzOuterDist) >>
              ELSE <<>>)
             \o << Entity("orbit_", "hz_inner", "Line", 0, Origin, hzInnerDist),
                   Entity("orbit_", "hz_outer", "Line", 0, Origin, hzOuterDist) >>

\* renderSystemView that clears the planets only
renderSystemViewKeepsOrbits(sc, cat, sel, orbits, hzOn) ==
    LET rows == PlanetsOf(cat, sel)
    IN  IF Len(rows) = 0 THEN Without(sc, {"planet_"})
        ELSE Without(sc, {"planet_"})
             \o << Entity("planet_", "star", "Mesh", 0, Origin, 0) >>
             \o SystemEntities(cat, rows, SortByOrbit(cat, rows, 1..Len(rows)), 1, orbits)
             \o ZoneEntities(SystemZone(cat, rows), hzOn)

\* renderSystemView that clears the orbits and rings only
renderSystemViewKeepsPlanets(sc, cat, sel, orbits, hzOn) ==
    LET rows == PlanetsOf(cat, sel)
    IN  IF Len(rows) = 0 THEN Without(sc, {"orbit_"})
        ELSE Without(sc, {"orbit_"})
             \o << Entity("planet_", "star", "Mesh", 0, Origin, 0) >>
             \o SystemEntities(cat, rows, SortByOrbit(cat, rows, 1..Len(rows)), 1, orbits)
             \o ZoneEntities(SystemZone(cat, rows), hzOn)

\* scene.children after renderSystemView
renderSystemView(sc, cat, sel, orbits, hzOn) ==
    LET rows == PlanetsOf(cat, sel)
    IN  IF Len(rows) = 0 THEN Without(sc, {"planet_", "orbit_"})
        ELSE Without(sc, {"planet_", "orbit_"})
             \o << Entity("planet_", "star", "Mesh", 0, Origin, 0) >>
             \o SystemEntities(cat, rows, SortByOrbit(cat, rows, 1..Len(rows)), 1, orbits)
             \o ZoneEntities(SystemZone(cat, rows), hzOn)

\* scene.children after initThreeJS
InitScene(cat, hzOn) ==
    renderStarView(BaseScene \o (IF hzOn THEN addSunHabitableZone ELSE <<>>), cat)

\* Array.from(new Set(hostnames)).sort()
Systems3D(cat) == SelectSeq(Hostnames, LAMBDA h : Len(PlanetsOf(cat, h)) > 0)

----------------------------------------------------------------------------
(* StarMap3D.vue: lifecycle, frame loop, watchers and pointer handlers.    *)
(* The container and its controls are rendered while the component is      *)
(* mounted and the shared loading flag is off.                             *)

others3D == <<tableZone, cardZone, statsHabitable, camVars, canvasAlive, painted>>

Event(op, planet) == [op |-> op, planet |-> planet]

\* error.value after a failed request
FetchFailed == "Failed to fetch exoplanet data. Please try again later."

\* a position and target the user can reach with the orbit controls
CameraMoves == {[position |-> <<120, 80, 0>>, target |-> <<10, 0, 5>>]}

containerRef == mounted3D /\ ~loading

\* the controls overlay can be used: it is rendered and the scene exists
UiReady == containerRef /\ renderer

Init3D ==
    /\ exoplanets \in {<<>>} \cup {Loaded(data) : data \in Responses}
    /\ selectedSystem = ""
    /\ tableZone = <<>>
    /\ cardZone = <<>>
    /\ statsHabitable = {}
    /\ rotation = [x |-> 0, y |-> 0]
    /\ zoom = 10
    /\ isDragging = FALSE
    /\ lastMouse = [x |-> 0, y |-> 0]
    /\ autoRotate = TRUE
    /\ canvasPhase = "mounting"
    /\ lastOp = "setup"
    /\ loading = FALSE
    /\ canvasAlive = FALSE
    /\ painted = <<>>
    /\ viewMode = "star"
    /\ showOrbits = TRUE
    /\ showHabitableZone = TRUE
    /\ scene = <<>>
    /\ cameraPosition = Origin
    /\ controlsTarget = Origin
    /\ mountPc = "start"
    /\ mounted3D = TRUE
    /\ renderer = FALSE
    /\ animationFrameId = 0
    /\ rafPending = FALSE
    /\ listeners = {}
    /\ threw = {}
    /\ lastEvent = Event("setup", 0)
    /\ showLabels = TRUE
    /\ hoveredPlanet = ""
    /\ labels = {}
    /\ pending = {}
    /\ error = "null"

\* onMounted from "Set first system as default" on: lines 296-308, with
\* initThreeJS and the first call of animate
MountBody(cat) ==
    /\ selectedSystem' = IF Len(Systems3D(cat)) > 0 THEN Systems3D(cat)[1] ELSE selectedSystem
    /\ rafPending' = TRUE
    /\ animationFrameId' = 1
    /\ IF mounted3D /\ ~loading'
       THEN /\ renderer' = TRUE
            /\ scene' = InitScene(cat, showHabitableZone)
            /\ cameraPosition' = StarCamera
            /\ controlsTarget' = Origin
            /\ listeners' = {"click", "mousemove", "resize"}
            /\ mountPc' = "mounted"
            /\ threw' = threw
            /\ hoveredPlanet' = ""
            /\ labels' = {}
       ELSE /\ mountPc' = "failed"
            /\ threw' = threw \cup {"animate"}
            /\ UNCHANGED <<renderer, scene, cameraPosition, controlsTarget, listeners,
                           hoveredPlanet, labels>>
    /\ UNCHANGED <<viewMode, showOrbits, showHabitableZone, mounted3D, showLabels>>

\* onMounted up to the await: the catalog is fetched only when it is empty
onMounted3D ==
    /\ mountPc = "start"
    /\ lastEvent' = Event("onMounted", 0)
    /\ IF Len(exoplanets) = 0
       THEN /\ loading' = TRUE
            /\ error' = "null"
            /\ pending' = pending \cup {"StarMap3D"}
            /\ mountPc' = "fetching"
            /\ UNCHANGED <<exoplanets, selectedSystem, viewMode, showOrbits,
                           showHabitableZone, scene, cameraPosition, controlsTarget,
                           mounted3D, renderer, animationFrameId, rafPending,
                           listeners, threw, showLabels, hoveredPlanet, labels>>
       ELSE /\ UNCHANGED <<exoplanets, loading, fetchVars>>
            /\ MountBody(exoplanets)
    /\ UNCHANGED others3D

\* fetchExoplanets resolves with the proxy's rows and onMounted goes on
fetchDone3D(data) ==
    /\ mountPc = "fetching"
    /\ exoplanets' = Loaded(data)
    /\ loading' = FALSE
    /\ pending' = pending \ {"StarMap3D"}
    /\ MountBody(Loaded(data))
    /\ lastEvent' = Event("fetchExoplanets", 0)
    /\ UNCHANGED <<error, others3D>>

\* the request fails: fetchExoplanets catches the error and onMounted goes on
fetchError3D ==
    /\ mountPc = "fetching"
    /\ loading' = FALSE
    /\ error' = FetchFailed
    /\ pending' = pending \ {"StarMap3D"}
    /\ MountBody(exoplanets)
    /\ lastEvent' = Event("fetchExoplanets", 0)
    /\ UNCHANGED <<exoplanets, others3D>>

onUnmounted3D ==
    /\ mounted3D
    /\ mountPc # "start"
    /\ mounted3D' = FALSE
    /\ rafPending' = IF animationFrameId # 0 THEN FALSE ELSE rafPending
    /\ listeners' = IF renderer THEN {} ELSE listeners \ {"resize"}
    /\ labels' = {}
    /\ hoveredPlanet' = ""
    /\ lastEvent' = Event("onUnmounted", 0)
    /\ UNCHANGED <<exoplanets, selectedSystem, loading, viewMode, showOrbits,
                   showHabitableZone, scene, cameraPosition, controlsTarget, mountPc,
                   renderer, animationFrameId, threw, showLabels, others3D, fetchVars>>

\* one animation-frame callback: it requests the next frame before anything else
animate3D ==
    /\ rafPending
    /\ rafPending' = TRUE
    /\ animationFrameId' = 1
    /\ threw' = IF renderer THEN threw ELSE threw \cup {"animate"}
    /\ lastEvent' = Event("animate", 0)
    /\ UNCHANGED <<exoplanets, selectedSystem, loading, viewMode, showOrbits,
                   showHabitableZone, scene, cameraPosition, controlsTarget, mountPc,
                   mounted3D, renderer, listeners, labelVars, others3D, fetchVars>>

\* the window's resize event
handleResize ==
    /\ "resize" \in listeners
    /\ lastEvent' = Event("handleResize", 0)
    /\ UNCHANGED <<exoplanets, selectedSystem, loading, viewMode, showOrbits,
                   showHabitableZone, scene, cameraPosition, controlsTarget, mountPc,
                   mounted3D, renderer, animationFrameId, rafPending, listeners, threw,
                   labelVars, others3D, fetchVars>>

\* the camera after renderSystemView: left alone when the system has no planets
SystemViewCamera(cat, sel) ==
    IF Len(PlanetsOf(cat, sel)) = 0
    THEN UNCHANGED <<cameraPosition, controlsTarget>>
    ELSE cameraPosition' = SystemCamera /\ controlsTarget' = Origin

\* the Star View / System View buttons and watch(viewMode)
setViewMode(newMode) ==
    /\ UiReady
    /\ newMode # viewMode
    /\ viewMode' = newMode
    /\ IF newMode = "star"
       THEN /\ scene' = renderStarView(scene, exoplanets)
            /\ cameraPosition' = StarCamera
       ELSE /\ scene' = renderSystemView(scene, exoplanets, selectedSystem,
                                         showOrbits, showHabitableZone)
            /\ cameraPosition' = SystemCamera
    /\ controlsTarget' = Origin
    /\ hoveredPlanet' = ""
    /\ labels' = {}
    /\ lastEvent' = Event("setViewMode", 0)
    /\ UNCHANGED <<exoplanets, selectedSystem, loading, showOrbits, showHabitableZone,
                   mountPc, mounted3D, renderer, animationFrameId, rafPending,
                   listeners, threw, showLabels, others3D, fetchVars>>

\* the system dropdown (system view only) and watch(selectedSystem)
selectSystem3D(s) ==
    /\ UiReady
    /\ viewMode = "system"
    /\ s # selectedSystem
    /\ selectedSystem' = s
    /\ scene' = renderSystemView(scene, exoplanets, s, showOrbits, showHabitableZone)
    /\ SystemViewCamera(exoplanets, s)
    /\ hoveredPlanet' = ""
    /\ labels' = {}
    /\ lastEvent' = Event("selectSystem", 0)
    /\ UNCHANGED <<exoplanets, loading, viewMode, showOrbits, showHabitableZone,
                   mountPc, mounted3D, renderer, animationFrameId, rafPending,
                   listeners, threw, showLabels, others3D, fetchVars>>

\* the Orbits checkbox (system view only) and watch(showOrbits)
toggleOrbits ==
    /\ UiReady
    /\ viewMode = "system"
    /\ showOrbits' = ~showOrbits
    /\ scene' = renderSystemView(scene, exoplanets, selectedSystem,
                                 ~showOrbits, showHabitableZone)
    /\ SystemViewCamera(exoplanets, selectedSystem)
    /\ hoveredPlanet' = ""
    /\ labels' = {}
    /\ lastEvent' = Event("toggleOrbits", 0)
    /\ UNCHANGED <<exoplanets, selectedSystem, loading, viewMode, showHabitableZone,
                   mountPc, mounted3D, renderer, animationFrameId, rafPending,
                   listeners, threw, showLabels, others3D, fetchVars>>

\* the Habitable Zone checkbox (system view only) and watch(showHabitableZone)
toggleHabitableZone ==
    /\ UiReady
    /\ viewMode = "system"
    /\ showHabitableZone' = ~showHabitableZone
    /\ IF viewMode = "system"
       THEN /\ scene' = renderSystemView(scene, exoplanets, selectedSystem,
                                         showOrbits, ~showHabitableZone)
            /\ SystemViewCamera(exoplanets, selectedSystem)
            /\ hoveredPlanet' = ""
            /\ labels' = {}
       ELSE /\ scene' =
                 LET sunHZObjects == SelectSeq(scene, LAMBDA e : e.prefix = "sun_hz_")
                 IN  IF ~showHabitableZone /\ Len(sunHZObjects) = 0
                     THEN scene \o addSunHabitableZone
                     ELSE IF showHabitableZone /\ Len(sunHZObjects) > 0
                     THEN Without(scene, {"sun_hz_"})
                     ELSE scene
            /\ UNCHANGED <<cameraPosition, controlsTarget, hoveredPlanet, labels>>
    /\ lastEvent' = Event("toggleHabitableZone", 0)
    /\ UNCHANGED <<exoplanets, selectedSystem, loading, viewMode, showOrbits,
                   mountPc, mounted3D, renderer, animationFrameId, rafPending,
                   listeners, threw, showLabels, others3D, fetchVars>>

\* the Reset Camera button
resetCamera ==
    /\ UiReady
    /\ cameraPosition' = IF viewMode = "star" THEN StarCamera ELSE SystemCamera
    /\ controlsTarget' = Origin
    /\ lastEvent' = Event("resetCamera", 0)
    /\ UNCHANGED <<exoplanets, selectedSystem, loading, viewMode, showOrbits,
                   showHabitableZone, scene, mountPc, mounted3D, renderer,
                   animationFrameId, rafPending, listeners, threw, labelVars, others3D,
                   fetchVars>>

\* the user orbits, pans or zooms with the OrbitControls
controlsChange(move) ==
    /\ UiReady
    /\ cameraPosition' = move.position
    /\ controlsTarget' = move.target
    /\ lastEvent' = Event("controls", 0)
    /\ UNCHANGED <<exoplanets, selectedSystem, loading, viewMode, showOrbits,
                   showHabitableZone, scene, mountPc, mounted3D, renderer,
                   animationFrameId, rafPending, listeners, threw, labelVars, others3D,
                   fetchVars>>

\* what the raycaster can hit: meshes, lines and points
Pickable(sc) == {n \in 1..Len(sc) : sc[n].obj \in {"Mesh", "Line", "Points"}}

\* the objects that carry a catalog row in userData
PlanetMeshes(sc) == {n \in Pickable(sc) : sc[n].prefix = "planet_" /\ sc[n].planet # 0}

\* raycaster.intersectObjects(scene.children), nearest first: no hit, one hit,
\* or an object without a catalog row in front of a planet mesh (every longer
\* list is handled like one of these)
HitLists(sc) ==
    {<<>>} \cup {<<a>> : a \in Pickable(sc)}
           \cup ((Pickable(sc) \ PlanetMeshes(sc)) \X PlanetMeshes(sc))

\* a picking loop that takes whatever object the ray meets first
PickNearest(sc, hits, n) ==
    IF n > Len(hits) THEN 0 ELSE sc[hits[n]].planet

\* the loop of handleClick: the catalog row of the first intersected object
\* named planet_... that carries a planet with a hostname, 0 if there is none
RECURSIVE PickPlanet(_, _, _)
PickPlanet(sc, hits, n) ==
    IF n > Len(hits) THEN 0
    ELSE LET object == sc[hits[n]]
         IN  IF object.prefix = "planet_" /\ object.planet # 0
             THEN object.planet
             ELSE PickPlanet(sc, hits, n + 1)

\* a click that changes the selected system but not the view mode
handleClickKeepsMode(hits) ==
    LET planet == PickPlanet(scene, hits, 1)
    IN  /\ "click" \in listeners
        /\ containerRef
        /\ lastEvent' = Event("handleClick", planet)
        /\ IF planet # 0
           THEN /\ selectedSystem' = exoplanets[planet].hostname
                /\ UNCHANGED <<viewMode, scene, cameraPosition, controlsTarget>>
           ELSE UNCHANGED <<viewMode, selectedSystem, scene, cameraPosition,
                            controlsTarget>>
        /\ UNCHANGED <<exoplanets, loading, showOrbits, showHabitableZone, mountPc,
                       mounted3D, renderer, animationFrameId, rafPending, listeners,
                       threw, labelVars, others3D, fetchVars>>

\* a click on the canvas, with the watchers of viewMode and selectedSystem
handleClick(hits) ==
    LET planet == PickPlanet(scene, hits, 1)
    IN  /\ "click" \in listeners
        /\ containerRef
        /\ lastEvent' = Event("handleClick", planet)
        /\ IF planet # 0
           THEN /\ viewMode' = "system"
                /\ selectedSystem' = exoplanets[planet].hostname
                /\ IF viewMode # "system" \/ selectedSystem # exoplanets[planet].hostname
                   THEN /\ scene' = renderSystemView(scene, exoplanets,
                                                     exoplanets[planet].hostname,
                                                     showOrbits, showHabitableZone)
                        /\ cameraPosition' = SystemCamera
                        /\ controlsTarget' = Origin
                        /\ hoveredPlanet' = ""
                        /\ labels' = {}
                   ELSE UNCHANGED <<scene, cameraPosition, controlsTarget,
                                    hoveredPlanet, labels>>
           ELSE UNCHANGED <<viewMode, selectedSystem, scene, cameraPosition,
                            controlsTarget, hoveredPlanet, labels>>
        /\ UNCHANGED <<exoplanets, loading, showOrbits, showHabitableZone, mountPc,
                       mounted3D, renderer, animationFrameId, rafPending, listeners,
                       threw, showLabels, others3D, fetchVars>>

\* the Labels checkbox: showLabels has no watcher
toggleLabels ==
    /\ UiReady
    /\ showLabels' = ~showLabels
    /\ lastEvent' = Event("toggleLabels", 0)
    /\ UNCHANGED <<exoplanets, selectedSystem, loading, viewMode, showOrbits,
                   showHabitableZone, scene, cameraPosition, controlsTarget, mountPc,
                   mounted3D, renderer, animationFrameId, rafPending, listeners, threw,
                   hoveredPlanet, labels, others3D, fetchVars>>

\* scene.getObjectByName("planet_" + name) finds an object
HasPlanetNamed(sc, name) ==
    \E n \in 1..Len(sc) : sc[n].prefix = "planet_" /\ sc[n].id = name

\* a pointer move that leaves the label of the planet hovered before
handleMouseMoveKeepsLabel(hits) ==
    LET planet      == PickPlanet(scene, hits, 1)
        foundPlanet == IF planet = 0 THEN "" ELSE exoplanets[planet].pl_name
    IN  /\ "mousemove" \in listeners
        /\ IF ~containerRef \/ ~showLabels
           THEN /\ lastEvent' = Event("handleMouseMove", 0)
                /\ UNCHANGED <<hoveredPlanet, labels>>
           ELSE /\ lastEvent' = Event("handleMouseMove", planet)
                /\ IF foundPlanet # hoveredPlanet
                   THEN /\ hoveredPlanet' = foundPlanet
                        /\ labels' = labels \cup (IF foundPlanet # "" THEN {foundPlanet} ELSE {})
                   ELSE UNCHANGED <<hoveredPlanet, labels>>
        /\ UNCHANGED <<exoplanets, selectedSystem, loading, viewMode, showOrbits,
                       showHabitableZone, scene, cameraPosition, controlsTarget, mountPc,
                       mounted3D, renderer, animationFrameId, rafPending, listeners,
                       threw, showLabels, others3D, fetchVars>>

\* the pointer moves over the canvas: the label follows the hovered planet
handleMouseMove3D(hits) ==
    LET planet      == PickPlanet(scene, hits, 1)
        foundPlanet == IF planet = 0 THEN "" ELSE exoplanets[planet].pl_name
    IN  /\ "mousemove" \in listeners
        /\ IF ~containerRef \/ ~showLabels
           THEN /\ lastEvent' = Event("handleMouseMove", 0)
                /\ UNCHANGED <<hoveredPlanet, labels>>
           ELSE /\ lastEvent' = Event("handleMouseMove", planet)
                /\ IF foundPlanet # hoveredPlanet
                   THEN /\ hoveredPlanet' = foundPlanet
                        /\ labels' = (labels \ {hoveredPlanet})
                                        \cup (IF foundPlanet # ""
                                                  /\ HasPlanetNamed(scene, foundPlanet)
                                              THEN {foundPlanet} ELSE {})
                   ELSE UNCHANGED <<hoveredPlanet, labels>>
        /\ UNCHANGED <<exoplanets, selectedSystem, loading, viewMode, showOrbits,
                       showHabitableZone, scene, cameraPosition, controlsTarget, mountPc,
                       mounted3D, renderer, animationFrameId, rafPending, listeners,
                       threw, showLabels, others3D, fetchVars>>

Next3D ==
    \/ onMounted3D
    \/ \E data \in Responses : fetchDone3D(data)
    \/ fetchError3D
    \/ onUnmounted3D
    \/ animate3D
    \/ handleResize
    \/ \E newMode \in {"star", "system"} : setViewMode(newMode)
    \/ \E k \in 1..Len(Systems3D(exoplanets)) : selectSystem3D(Systems3D(exoplanets)[k])
    \/ toggleOrbits
    \/ toggleHabitableZone
    \/ resetCamera
    \/ \E move \in CameraMoves : controlsChange(move)
    \/ \E hits \in HitLists(scene) : handleClick(hits)
    \/ toggleLabels
    \/ \E hits \in HitLists(scene) : handleMouseMove3D(hits)

Spec3D == Init3D /\ [][Next3D]_vars

----------------------------------------------------------------------------
(* useExoplanets.ts: fetchExoplanets on the shared state, called by the     *)
(* components of the page's tabs when they mount.  A tab change unmounts a *)
(* component but its request stays in flight, so calls can overlap.        *)

\* the components that call fetchExoplanets in onMounted
Callers == {"ExoplanetOverview", "HabitableZoneAnalysis", "MissionCalculator"}

\* the components that call it only while the catalog is empty
GuardedCallers == {"ExoplanetOverview"}

InitFetch ==
    /\ exoplanets = <<>>
    /\ selectedSystem = ""
    /\ tableZone = <<>>
    /\ cardZone = <<>>
    /\ statsHabitable = {}
    /\ rotation = [x |-> 0, y |-> 0]
    /\ zoom = 10
    /\ isDragging = FALSE
    /\ lastMouse = [x |-> 0, y |-> 0]
    /\ autoRotate = TRUE
    /\ canvasPhase = "mounting"
    /\ lastOp = "setup"
    /\ loading = FALSE
    /\ canvasAlive = FALSE
    /\ painted = <<>>
    /\ Idle3D
    /\ pending = {}
    /\ error = "null"

othersFetch == <<selectedSystem, tableZone, cardZone, statsHabitable, rotation, zoom,
                 isDragging, lastMouse, autoRotate, canvasPhase, canvasAlive, painted,
                 sceneVars>>

\* component c mounts and calls fetchExoplanets: lines 118-123, up to the await
fetchExoplanets(c) ==
    /\ c \notin pending
    /\ c \in GuardedCallers => Len(exoplanets) = 0
    /\ loading' = TRUE
    /\ error' = "null"
    /\ pending' = pending \cup {c}
    /\ lastOp' = "fetchExoplanets"
    /\ UNCHANGED <<exoplanets, othersFetch>>

\* the request of c resolves with an array of rows: lines 134-167 and finally
fetchResolved(c, data) ==
    /\ c \in pending
    /\ exoplanets' = Loaded(data)
    /\ loading' = FALSE
    /\ pending' = pending \ {c}
    /\ lastOp' = "fetchResolved"
    /\ UNCHANGED <<error, othersFetch>>

\* a failure that empties the catalog
fetchFailedClears(c, cause) ==
    /\ c \in pending
    /\ exoplanets' = <<>>
    /\ error' = FetchFailed
    /\ loading' = FALSE
    /\ pending' = pending \ {c}
    /\ lastOp' = cause
    /\ UNCHANGED othersFetch

\* the request of c fails: axios rejects ("network"), or the proxy answers
\* with its error object and response.data.map throws ("errorObject"); catch
\* and finally of lines 168-182
fetchFailed(c, cause) ==
    /\ c \in pending
    /\ error' = FetchFailed
    /\ loading' = FALSE
    /\ pending' = pending \ {c}
    /\ lastOp' = cause
    /\ UNCHANGED <<exoplanets, othersFetch>>

NextFetch ==
    \/ \E c \in Callers : fetchExoplanets(c)
    \/ \E c \in Callers, data \in Responses : fetchResolved(c, data)
    \/ \E c \in Callers, cause \in {"network", "errorObject"} : fetchFailed(c, cause)

SpecFetch == InitFetch /\ [][NextFetch]_vars

----------------------------------------------------------------------------
(* Properties of the classifier (SpecHZ) *)

Rows == 1..Len(exoplanets)

IsNumber(x) == x.t = "number"

\* every zone the UI has computed for row i
ShownZones(i) == {tableZone[i], cardZone[i]} \ {"none"}

MissingOrbit(p) ==
    \/ p.pl_orbsmax \in {Undefined, Null}
    \/ IsNumber(p.pl_orbsmax) /\ p.pl_orbsmax.v <= 0

\* C1: a planet whose pl_orbsmax is absent (null/undefined) or non-positive is
\* classified too-cold by isInHabitableZone, never habitable or too-hot.
C1_MissingOrbitTooCold ==
    \A i \in Rows :
        MissingOrbit(exoplanets[i]) => ShownZones(i) \subseteq {"too-cold"}

\* C2: a planet whose stellar radius or temperature is missing is classified
\* too-cold in every invocation: boundaries computed from the planet (table,
\* statistics) and pre-calculated boundaries passed in (analysis cards).
C2_MissingStellarTooCold ==
    \A i \in Rows :
        ~HasStellarData(exoplanets[i]) =>
            /\ ShownZones(i) \subseteq {"too-cold"}
            /\ i \notin statsHabitable

MinHabitableTemp == 235
MaxHabitableTemp == 350

\* C3: a planet that has an equilibrium temperature is classified habitable
\* only if pl_eqt lies in 235..350 K; with an orbit inside the zone and pl_eqt
\* outside the band it is classified too-cold.
C3_EqtGuard ==
    \A i \in Rows :
        LET eqt == exoplanets[i].pl_eqt
        IN  (IsNumber(eqt) /\ (eqt.v < MinHabitableTemp \/ eqt.v > MaxHabitableTemp))
                => "habitable" \notin ShownZones(i)

\* the classification a numeric distance must get from numeric boundaries
Matches(zone, d, inner, outer) ==
    /\ (zone = "too-hot") <=> (d < inner)
    /\ (zone = "too-cold") <=> (d > outer)
    /\ (zone = "habitable") <=> (inner <= d /\ d <= outer)

\* C4: for a numeric orbital distance d and boundaries inner <= outer the
\* classifier returns too-hot exactly when d < inner, too-cold exactly when
\* d > outer, and habitable exactly when inner <= d <= outer.
C4_ClassifyByBoundaries ==
    \A i \in Rows :
        LET p  == exoplanets[i]
            d  == p.pl_orbsmax
            b  == calculateHabitableZone(p.st_rad, p.st_teff)
            hz == habitableZone(selectedSystem)
        IN  IsNumber(d) =>
              /\ (tableZone[i] # "none" /\ HasStellarData(p)
                     /\ b.innerBoundary.v <= b.outerBoundary.v)
                    => Matches(tableZone[i], d.v, b.innerBoundary.v, b.outerBoundary.v)
              /\ (cardZone[i] # "none" /\ IsNumber(hz.innerBoundary)
                     /\ IsNumber(hz.outerBoundary)
                     /\ hz.innerBoundary.v <= hz.outerBoundary.v)
                    => Matches(cardZone[i], d.v, hz.innerBoundary.v, hz.outerBoundary.v)

\* C4 witness: a numeric distance classified habitable from its own star's
\* boundaries in the table and too-hot from passed-in boundaries on a card
C4_Witness ==
    \E i, j \in Rows :
        /\ IsNumber(exoplanets[i].pl_orbsmax) /\ HasStellarData(exoplanets[i])
        /\ tableZone[i] = "habitable"
        /\ IsNumber(exoplanets[j].pl_orbsmax) /\ exoplanets[j].pl_orbsmax.v > 0
        /\ IsNumber(habitableZone(selectedSystem).innerBoundary)
        /\ cardZone[j] = "too-hot"

\* rows i and j are classified against the same boundaries
SameBoundaries(i, j) ==
    /\ exoplanets[i].st_rad = exoplanets[j].st_rad
    /\ exoplanets[i].st_teff = exoplanets[j].st_teff

\* C5: for fixed boundaries the classification is monotonic in the orbital
\* distance: with d1 <= d2, too-cold at d1 implies too-cold at d2, and too-hot
\* at d2 implies too-hot at d1.
C5_Monotonic ==
    \A i, j \in Rows :
        LET d1 == exoplanets[i].pl_orbsmax
            d2 == exoplanets[j].pl_orbsmax
        IN  (IsNumber(d1) /\ IsNumber(d2) /\ d1.v <= d2.v) =>
              /\ (cardZone[i] # "none" /\ cardZone[j] # "none") =>
                    /\ cardZone[i] = "too-cold" => cardZone[j] = "too-cold"
                    /\ cardZone[j] = "too-hot" => cardZone[i] = "too-hot"
              /\ (tableZone[i] # "none" /\ SameBoundaries(i, j)) =>
                    /\ tableZone[i] = "too-cold" => tableZone[j] = "too-cold"
                    /\ tableZone[j] = "too-hot" => tableZone[i] = "too-hot"

\* C5 witness: two cards of one system, the nearer planet too-hot and the
\* farther one habitable, and two table rows of one star both too-cold
C5_Witness ==
    \E i, j \in Rows :
        /\ IsNumber(exoplanets[i].pl_orbsmax) /\ IsNumber(exoplanets[j].pl_orbsmax)
        /\ exoplanets[i].pl_orbsmax.v < exoplanets[j].pl_orbsmax.v
        /\ HasStellarData(exoplanets[i]) /\ SameBoundaries(i, j)
        /\ cardZone[i] = "too-hot" /\ cardZone[j] = "habitable"
        /\ tableZone[i] = "too-hot" /\ tableZone[j] = "habitable"

----------------------------------------------------------------------------
(* Properties of the canvas camera (SpecCanvas) *)

C7_PitchClamped == rotation.x \in -HalfPi..HalfPi

\* C8: while a drag is in progress an animation tick leaves yaw unchanged,
\* also after the auto-rotate toggle or reset view was used during the drag.
C8_NoTickWhileDragging ==
    [][(isDragging /\ lastOp' = "animate") => rotation'.y = rotation.y]_vars

\* C9: beginning a drag turns auto-rotate off and drag-in-progress on;
\* auto-rotate is switched on again only by the toggle or by reset view;
\* end-drag only clears drag-in-progress.
C9_DragStopsAutoRotate ==
    [][/\ lastOp' = "handleMouseDown" => (~autoRotate' /\ isDragging')
       /\ (~autoRotate /\ autoRotate') => lastOp' \in {"toggleAutoRotate", "resetView"}
       /\ lastOp' = "handleMouseUp" =>
             (~isDragging' /\ UNCHANGED <<rotation, zoom, lastMouse, autoRotate>>)
      ]_vars

\* C9 witness: a drag that turned the view has ended and auto-rotate is off
C9_Witness ==
    /\ lastOp = "handleMouseUp"
    /\ ~isDragging
    /\ ~autoRotate
    /\ rotation.x # 0

\* C10: reset view, from any reachable state, sets rotation to (0, 0), zoom
\* to 1 and auto-rotate to on.
C10_ResetView ==
    lastOp = "resetView" =>
        /\ rotation = [x |-> 0, y |-> 0]
        /\ zoom = ZoomDefault
        /\ autoRotate

\* C10 witness: reset view was pressed in the middle of a drag
C10_Witness ==
    /\ lastOp = "resetView"
    /\ isDragging
    /\ lastMouse.y # 0

----------------------------------------------------------------------------
(* Properties of the Three.js star map (Spec3D) *)

\* a row of the catalog without right ascension, declination or distance
MissingSky(p) ==
    \/ p.ra.t # "number"
    \/ p.dec.t # "number"
    \/ p.sy_dist.t # "number"

\* x*x + y*y + z*z of a loaded row, in squared tenths of a parsec
NormSquared(p) == p.x * p.x + p.y * p.y + p.z * p.z

\* the same entities, as many of them
SameEntities(a, b) ==
    /\ Len(a) = Len(b)
    /\ {a[n] : n \in 1..Len(a)} = {b[n] : n \in 1..Len(b)}

\* the scene of a freshly mounted map that enters system view for the first
\* time, for the current system and checkbox settings
FreshSystemEntry ==
    renderSystemView(InitScene(exoplanets, TRUE), exoplanets, selectedSystem,
                     showOrbits, showHabitableZone)

\* C11: switching from star view to system view and back leaves the camera at
\* the star-view default position and target, and the scene entities of a later
\* system-view entry equal those of a fresh system-view entry for the same
\* system, whatever toggles and view switches happened before.
C11_RoundTrip ==
    /\ (lastEvent.op = "setViewMode" /\ viewMode = "star") =>
           (cameraPosition = StarCamera /\ controlsTarget = Origin)
    /\ (renderer /\ viewMode = "system") => SameEntities(scene, FreshSystemEntry)

\* C11 witness: system view entered again by the button, with both checkboxes
\* switched off during an earlier visit and another system selected by then
C11_Witness ==
    /\ lastEvent.op = "setViewMode"
    /\ viewMode = "system"
    /\ ~showOrbits
    /\ ~showHabitableZone
    /\ selectedSystem = "B"

\* C12: after the 3D component is unmounted no animation-frame callback
\* remains scheduled and no resize or pointer listener remains attached, under
\* every interleaving of the unmount with the mount-time catalog fetch.
C12_UnmountCleansUp ==
    ~mounted3D => (~rafPending /\ listeners = {})

\* C14: a click that resolves to a catalog object sets the selected system to
\* that object's host name and the view mode to system; a click that resolves
\* to no catalog object changes neither of the two.
C14_ClickSelects ==
    [][lastEvent'.op = "handleClick" =>
          IF lastEvent'.planet # 0
          THEN /\ selectedSystem' = exoplanets[lastEvent'.planet].hostname
               /\ viewMode' = "system"
          ELSE UNCHANGED <<selectedSystem, viewMode>>]_vars

\* C14 witness: a click in star view resolved to a planet of system B, which
\* is now the selected system, shown in system view
C14_Witness ==
    /\ lastEvent.op = "handleClick"
    /\ lastEvent.planet # 0
    /\ exoplanets[lastEvent.planet].hostname = "B"
    /\ selectedSystem = "B"
    /\ viewMode = "system"

\* C16: when the rendering surface is unavailable (container or canvas
\* reference null at mount, on a frame, on resize or when a watcher fires)
\* every renderer operation is a no-op and none throws.
C16_NoThrowWithoutSurface == threw = {}

\* the distances at which the scene draws the boundary line with this id
DrawnBoundary(id) ==
    {scene[n].distance : n \in {m \in 1..Len(scene) :
                                  scene[m].prefix = "orbit_" /\ scene[m].id = id}}

\* C17: in system view every displayed planet's orbit radius equals
\* sqrt(pl_orbsmax) * 40, the mapping that places the habitable-zone boundaries,
\* so a planet is drawn between the drawn boundaries exactly when its orbital
\* distance lies between the zone boundaries.
C17_SqrtMapping ==
    (renderer /\ viewMode = "system") =>
        \A n \in 1..Len(scene) :
            (scene[n].prefix = "planet_" /\ scene[n].planet # 0) =>
                LET au   == exoplanets[scene[n].planet].pl_orbsmax.v
                    zone == SystemZone(exoplanets, PlanetsOf(exoplanets, selectedSystem))
                IN  /\ scene[n].distance = ScaledOrbit(au)
                    /\ \A inner \in DrawnBoundary("hz_inner"), outer \in DrawnBoundary("hz_outer") :
                          (inner <= scene[n].distance /\ scene[n].distance <= outer)
                              <=> (zone.hzInner <= au /\ au <= zone.hzOuter)

\* C19: for every catalog object, the classification shown on its card in the
\* system analysis equals the classification that colours the same object in
\* the table and in the 3D view (both call isInHabitableZone(planet)).
C19_CardMatchesTable ==
    \A i \in 1..Len(exoplanets) :
        (cardZone[i] # "none" /\ tableZone[i] # "none") => cardZone[i] = tableZone[i]

\* an entity that only renderSystemView builds: an orbit line, the system's
\* habitable-zone ring or one of its boundary lines, the central star
SystemViewEntity(e) ==
    e.prefix = "orbit_" \/ (e.prefix = "planet_" /\ e.id = "star")

\* C21: whenever star view is active the scene contains no system-view entity:
\* what was built for system view is destroyed on the switch back, after any
\* sequence of view switches and toggles.
C21_StarViewClean ==
    (renderer /\ viewMode = "star") =>
        \A n \in 1..Len(scene) : ~SystemViewEntity(scene[n])

\* C22: toggling the orbit rings or the habitable-zone rings leaves the camera
\* position and target unchanged; only a click on a catalog object, a view-mode
\* switch or a reset (or the user's own orbit controls) repositions the camera
\* once the map is set up.
C22_TogglesKeepCamera ==
    [][/\ lastEvent'.op \in {"toggleOrbits", "toggleHabitableZone"} =>
              UNCHANGED <<cameraPosition, controlsTarget>>
       /\ (renderer /\ <<cameraPosition, controlsTarget>>' # <<cameraPosition, controlsTarget>>) =>
              lastEvent'.op \in {"handleClick", "setViewMode", "resetCamera", "controls"}]_vars

\* the operations that rebuild the scene
Rebuilds == {"setViewMode", "selectSystem", "toggleOrbits", "toggleHabitableZone"}

\* C23: at every moment at most one hover label exists; when one exists it
\* belongs to the currently hovered catalog object, whose mesh is still in the
\* scene; when the hovered object changes or the scene is rebuilt (view
\* switch, system change, toggle) the previous label is removed.
C23_OneHoverLabel ==
    /\ Cardinality(labels) <= 1
    /\ \A name \in labels :
          /\ name = hoveredPlanet
          /\ \E n \in PlanetMeshes(scene) : exoplanets[scene[n].planet].pl_name = name
    /\ lastEvent.op \in Rebuilds => labels = {}

\* star view with two planet meshes: one of them is hovered and carries the label
C23_Witness ==
    /\ lastEvent.op = "handleMouseMove"
    /\ viewMode = "star"
    /\ Cardinality(PlanetMeshes(scene)) = 2
    /\ hoveredPlanet = "B b"
    /\ labels = {"B b"}

\* C24: whenever the labels setting is off no planet label is displayed:
\* switching labels off while an object is hovered removes its label, and no
\* label is created while the setting stays off.
C24_NoLabelWhenOff == ~showLabels => labels = {}

\* the catalog row of the nearest hit that is a catalog object's mesh, 0 if
\* the ray meets none
NearestCatalogHit(sc, hits) ==
    LET catalog == {k \in 1..Len(hits) : sc[hits[k]].obj = "Mesh" /\ sc[hits[k]].planet # 0}
    IN  IF catalog = {} THEN 0
        ELSE sc[hits[CHOOSE k \in catalog : \A j \in catalog : k <= j]].planet

MeshesOf(i) == {n \in 1..Len(scene) : scene[n].obj = "Mesh" /\ scene[n].planet = i}

\* C26: in star view exactly the catalog objects whose distance from the origin
\* is at least the 30-parsec threshold have a mesh in the scene, each at its
\* transformed position (scene axes: x, z up, -y); objects nearer than the
\* threshold have none.  Rows without a bearing, elevation or range are left
\* to C15.
C26_ThresholdExact ==
    (renderer /\ viewMode = "star") =>
        \A i \in 1..Len(exoplanets) :
            LET p == exoplanets[i]
            IN  ~MissingSky(p) =>
                    /\ NormSquared(p) >= MinStarDistance * MinStarDistance
                           <=> MeshesOf(i) # {}
                    /\ Cardinality(MeshesOf(i)) <= 1
                    /\ \A n \in MeshesOf(i) : scene[n].pos = <<p.x, p.z, 0 - p.y>>

SunZoneCopies(id) ==
    {n \in 1..Len(scene) : scene[n].prefix = "sun_hz_" /\ scene[n].id = id}

\* C30: in star view the Sun's habitable-zone ring and boundary outlines are in
\* the scene exactly when the habitable-zone setting is on, after any sequence
\* of setting toggles and view-mode switches, and never more than one copy of
\* each exists.
C30_SunZoneFollowsSetting ==
    (renderer /\ viewMode = "star") =>
        \A id \in {"ring", "inner", "outer"} :
            Cardinality(SunZoneCopies(id)) = IF showHabitableZone THEN 1 ELSE 0

----------------------------------------------------------------------------
(* Properties of the 2D canvas star map's frame loop and painting (SpecDraw) *)

\* C13: after the 2D canvas component is unmounted its animation loop stops:
\* no further animation-frame callback is scheduled and no further yaw advance
\* or redraw happens.
C13_LoopStopsOnUnmount ==
    [][~canvasAlive =>
          /\ canvasPhase' # "running"
          /\ rotation' = rotation
          /\ painted' = painted]_vars

\* C15: a catalog entry whose right ascension, declination or distance is
\* missing is drawn by neither backend, the canvas or the star view of the
\* scene graph; in particular it never appears at the origin.
C15_MissingNotDrawn ==
    \A i \in 1..Len(exoplanets) :
        MissingSky(exoplanets[i]) =>
            /\ \A k \in 1..Len(painted) : painted[k].planet # i
            /\ viewMode = "star" => \A n \in 1..Len(scene) : scene[n].planet # i


\* C18: within each frame the canvas paints the catalog objects in far-to-near
\* order of their rotated depth (depth grows away from the viewer), so a
\* nearer object is never painted before a farther one.
C18_FarToNear ==
    \A j, k \in 1..Len(painted) : j < k => painted[j].depth >= painted[k].depth

----------------------------------------------------------------------------
(* Property of the coordinate transform (SpecSky) *)

\* C20: for every bearing, elevation and range >= 0 the Cartesian position has
\* Euclidean norm equal to the range: the transform preserves the distance
\* from the origin.  Each coordinate is rounded down to a tenth of a
\* parsec, which moves the norm by less than two tenths: the tolerance.
C20_NormPreserved ==
    \A i \in 1..Len(exoplanets) :
        LET p == exoplanets[i]
        IN  (~MissingSky(p) /\ p.sy_dist.v >= 0) =>
                /\ NormSquared(p) <= (p.sy_dist.v + 2) * (p.sy_dist.v + 2)
                /\ p.sy_dist.v >= 2 =>
                       NormSquared(p) >= (p.sy_dist.v - 2) * (p.sy_dist.v - 2)

\* a loaded row off every axis and plane, far enough for the norm to matter
C20_Witness ==
    /\ lastOp = "fetchExoplanets"
    /\ \E i \in 1..Len(exoplanets) :
          /\ ~MissingSky(exoplanets[i])
          /\ exoplanets[i].sy_dist.v = 1000
          /\ exoplanets[i].ra.v = 200 /\ exoplanets[i].dec.v = -60
          /\ exoplanets[i].x < 0 /\ exoplanets[i].y < 0 /\ exoplanets[i].z < 0

----------------------------------------------------------------------------
(* Properties of fetchExoplanets on the shared state (SpecFetch) *)

\* C28: the shared loading flag is true in every state in which a catalog
\* request is in flight, also when several components have started
\* overlapping fetchExoplanets calls; it becomes false only when no request
\* is pending.
C28_LoadingWhilePending == pending # {} => loading

\* C29: when fetchExoplanets fails (network error, or the proxy answering with
\* an error object instead of an array) the previously loaded catalog is left
\* unchanged, error is set to the user-facing message and loading returns to
\* false; each new call clears error before the request starts.
C29_FailureKeepsCatalog ==
    [][/\ lastOp' \in {"network", "errorObject"} =>
              /\ exoplanets' = exoplanets
              /\ error' = FetchFailed
              /\ loading' = FALSE
       /\ lastOp' = "fetchExoplanets" => error' = "null"]_vars

\* a loaded catalog has survived the proxy's error object
C29_Witness ==
    /\ lastOp = "errorObject"
    /\ Len(exoplanets) > 0
    /\ error = FetchFailed
    /\ ~loading
    /\ pending = {}

====
